---------------------------- MODULE Spec2Model ----------------------------
(***************************************************************************)
(* Model of the CRUT daily operations dashboard (src/v7.py): the one-time  *)
(* load of the transaction log with its missing-file fallback, the option  *)
(* lists built at load time, and the three callbacks set_route_options,    *)
(* update_dashboard and update_area_chart.                                 *)
(*                                                                         *)
(* Text is a sequence of character codes ("A" is <<65>>, " A" is           *)
(* <<32, 65>>), so that strip, zfill, str and lexical order are computed   *)
(* as Python computes them.  A ticket timestamp is represented by its hour *)
(* of day, the only part of it the program reads.                          *)
(***************************************************************************)
EXTENDS Integers, Sequences, FiniteSets, TLC

(***************************************************************************)
(* Bounds of the model.                                                    *)
(***************************************************************************)
MaxRows == 2

(***************************************************************************)
(* Python values.                                                          *)
(***************************************************************************)
\* a missing cell of the frame (NaN); no text has a negative code
NaN == <<-1>>
\* Python's None inside a selection list
PyNone == <<-2>>

\* str.isspace for the ASCII range
IsSpace(c) == c \in {9, 10, 11, 12, 13, 28, 29, 30, 31, 32}

RECURSIVE lstrip(_)
lstrip(s) ==
    IF s = <<>> THEN s
    ELSE IF IsSpace(Head(s)) THEN lstrip(Tail(s)) ELSE s

RECURSIVE rstrip(_)
rstrip(s) ==
    IF s = <<>> THEN s
    ELSE IF IsSpace(s[Len(s)]) THEN rstrip(SubSeq(s, 1, Len(s) - 1)) ELSE s

\* str.strip()
strip(s) == rstrip(lstrip(s))

\* str(n) for a non-negative integer
RECURSIVE str(_)
str(n) ==
    IF n < 10 THEN <<48 + n>>
    ELSE str(n \div 10) \o <<48 + (n % 10)>>

\* a zfill that pads nothing: str(n) alone
zfill_NoPad(s, width) == s

\* str.zfill(width) for unsigned text
RECURSIVE zfill(_, _)
zfill(s, width) ==
    IF Len(s) >= width THEN s ELSE zfill(<<48>> \o s, width)

\* format(n, ',') for a non-negative integer
RECURSIVE FormatComma(_)
FormatComma(n) ==
    IF n < 1000 THEN str(n)
    ELSE FormatComma(n \div 1000) \o <<44>> \o zfill(str(n % 1000), 3)

\* a < b in Python's ordering of str (code point by code point)
RECURSIVE StrLess(_, _)
StrLess(a, b) ==
    IF b = <<>> THEN FALSE
    ELSE IF a = <<>> THEN TRUE
    ELSE IF Head(a) # Head(b) THEN Head(a) < Head(b)
    ELSE StrLess(Tail(a), Tail(b))

\* insertion of x into a sorted list of str, after its equals (stable)
RECURSIVE InsertStr(_, _)
InsertStr(x, s) ==
    IF s = <<>> THEN <<x>>
    ELSE IF StrLess(x, Head(s)) THEN <<x>> \o s
    ELSE <<Head(s)>> \o InsertStr(x, Tail(s))

\* sorted(list of str)
RECURSIVE sorted(_)
sorted(s) ==
    IF s = <<>> THEN s
    ELSE InsertStr(s[Len(s)], sorted(SubSeq(s, 1, Len(s) - 1)))

RECURSIVE InsertInt(_, _)
InsertInt(x, s) ==
    IF s = <<>> THEN <<x>>
    ELSE IF x < Head(s) THEN <<x>> \o s
    ELSE <<Head(s)>> \o InsertInt(x, Tail(s))

\* ascending order of a list of integers
RECURSIVE SortInt(_)
SortInt(s) ==
    IF s = <<>> THEN s
    ELSE InsertInt(s[Len(s)], SortInt(SubSeq(s, 1, Len(s) - 1)))

Range(s) == {s[i] : i \in 1..Len(s)}

\* Series.unique(): the distinct values in order of first appearance
RECURSIVE unique(_)
unique(s) ==
    IF s = <<>> THEN s
    ELSE LET n == Len(s)
             u == unique(SubSeq(s, 1, n - 1))
         IN  IF s[n] \in Range(u) THEN u ELSE Append(u, s[n])

RECURSIVE SumSeq(_)
SumSeq(s) == IF s = <<>> THEN 0 ELSE Head(s) + SumSeq(Tail(s))

(***************************************************************************)
(* The transaction log.  A row of the CSV file carries the seven required  *)
(* columns and the optional 'Passenger Type'.                              *)
(***************************************************************************)
CsvRow(depot, city, route, count, fare, mode, hour, ptype) ==
    [DEPOT_NAME |-> depot, CITY_NAME |-> city, ROUTE_NAME |-> route,
     PASSENGER_COUNT |-> count, FARE_COLLECTED |-> fare, PAYMENT_MODE |-> mode,
     TICKET_TIME_STAMP |-> hour, Passenger_Type |-> ptype]

\* the rows a file is made of: names with and without surrounding blanks,
\* a blank name, missing names, hours on both sides of 10 and of the
\* slider's default ends 6 and 18, two hours of one 3-hour band
CsvRows ==
    { CsvRow(<<88>>, <<65>>, <<82, 49>>, 10, 100, "CASH", 6, "General"),
      CsvRow(<<88, 32>>, <<32, 65>>, <<32, 82, 49>>, 5, 50, "UPI", 18, "Student"),
      CsvRow(<<89>>, <<65>>, <<82, 50>>, 5, 1250, "CASH", 8, "General"),
      CsvRow(<<32, 32>>, NaN, NaN, 10, 0, "UPI", 13, "Student") }

CsvFiles == UNION {[1..n -> CsvRows] : n \in 0..MaxRows}

RequiredColumns ==
    {"DEPOT_NAME", "CITY_NAME", "ROUTE_NAME", "PASSENGER_COUNT",
     "FARE_COLLECTED", "PAYMENT_MODE", "TICKET_TIME_STAMP"}

DerivedColumns == {"Hour", "Time_Interval", "Time_Interval_Label"}

\* the columns of the frame substituted for a missing file
FallbackColumns == RequiredColumns \cup {"Passenger Type"}

\* df['Time_Interval'] = (df['Hour'] // 3) * 3
Time_Interval(hour) == (hour \div 3) * 3

\* astype(str).str.zfill(2) + '-' + (... + 3).astype(str).str.zfill(2) + ' hrs'
Time_Interval_Label(interval) ==
    zfill(str(interval), 2) \o <<45>> \o zfill(str(interval + 3), 2)
        \o <<32, 104, 114, 115>>

\* one row of the frame after the derived columns are added
LoadRow(r) ==
    [DEPOT_NAME |-> r.DEPOT_NAME, CITY_NAME |-> r.CITY_NAME,
     ROUTE_NAME |-> r.ROUTE_NAME, PASSENGER_COUNT |-> r.PASSENGER_COUNT,
     FARE_COLLECTED |-> r.FARE_COLLECTED, PAYMENT_MODE |-> r.PAYMENT_MODE,
     TICKET_TIME_STAMP |-> r.TICKET_TIME_STAMP,
     Passenger_Type |-> r.Passenger_Type,
     Hour |-> r.TICKET_TIME_STAMP,
     Time_Interval |-> Time_Interval(r.TICKET_TIME_STAMP),
     Time_Interval_Label |-> Time_Interval_Label(Time_Interval(r.TICKET_TIME_STAMP))]

\* the frame read from the file
LoadFrame(csv) == [i \in 1..Len(csv) |-> LoadRow(csv[i])]

Column(rows, name) == [i \in 1..Len(rows) |-> rows[i][name]]

dropna(s) == SelectSeq(s, LAMBDA x : x # NaN)

NonBlank(i) == strip(i) # <<>>

\* [str(i).strip() for i in values]
StripAll(values) == [k \in 1..Len(values) |-> strip(values[k])]

\* the option values of a dropdown built at load time (label = value)
CleanOptions(column) == StripAll(SelectSeq(unique(dropna(column)), NonBlank))

(***************************************************************************)
(* State: the module-level frame and option lists, the values of the four  *)
(* input components, the properties the callbacks write, and what the last *)
(* call of update_dashboard and of update_area_chart computed.             *)
(***************************************************************************)
VARIABLES
    df,                          \* the frame, a list of rows
    columns,                     \* df.columns
    depot_options,               \* options of 'depot-dropdown'
    city_options,                \* options of 'city-dropdown'
    page_loaded,                 \* the layout was served and the callbacks ran
    depot_value,                 \* value of 'depot-dropdown'
    city_value,                  \* value of 'city-dropdown'
    route_options,               \* options of 'route-dropdown'
    route_value,                 \* value of 'route-dropdown'
    time_range,                  \* value of 'time-range-slider'
    cards_container,             \* children of 'cards-container'
    pie_chart_transaction_type,  \* figure of 'pie-chart-transaction-type'
    temporal_chart_ridership,    \* figure of 'temporal-chart-ridership'
    passenger_type_chart,        \* figure of 'passenger-type-chart'
    ridership_area_chart,        \* figure of 'ridership-area-chart'
    dash_locals,                 \* the last update_dashboard call: locals, result
    area_locals,                 \* the last update_area_chart call: locals, result
    dashboard_error,             \* "" or the exception update_dashboard raised
    area_error                   \* "" or the exception update_area_chart raised

vars ==
    <<df, columns, depot_options, city_options, page_loaded, depot_value,
      city_value, route_options, route_value, time_range, cards_container,
      pie_chart_transaction_type, temporal_chart_ridership,
      passenger_type_chart, ridership_area_chart, dash_locals, area_locals,
      dashboard_error, area_error>>

loaded == <<df, columns, depot_options, city_options>>

dashboard_outputs ==
    <<cards_container, pie_chart_transaction_type, temporal_chart_ridership,
      passenger_type_chart>>

(***************************************************************************)
(* A dropdown value: None, or a list of values (multi=True), kept as the   *)
(* set of its members.                                                     *)
(***************************************************************************)
Selection(isNone, members) == [none |-> isNone, vals |-> members]
NoneValue == Selection(TRUE, {})
EmptyList == Selection(FALSE, {})
ListOfNone == Selection(FALSE, {PyNone})

\* a test for None only: `selected is not None`
Restricts_UnlessNone(selected) == ~selected.none

\* `selected and selected != [None]`
Restricts(selected) ==
    /\ ~selected.none
    /\ selected.vals # {}
    /\ selected.vals # {PyNone}

\* rows[rows[column].isin(selected)]
isin(rows, column, selected) ==
    SelectSeq(rows, LAMBDA r : r[column] \in selected.vals)

\* one `if selected ...: filtered_df = filtered_df[...isin(selected)]`
FilterBy(rows, column, selected) ==
    IF Restricts(selected) THEN isin(rows, column, selected) ELSE rows

\* the depot, city and route filters of update_dashboard and update_area_chart
ApplyFilters(rows, selected_depots, selected_cities, selected_routes) ==
    FilterBy(FilterBy(FilterBy(rows, "DEPOT_NAME", selected_depots),
                      "CITY_NAME", selected_cities),
             "ROUTE_NAME", selected_routes)

(***************************************************************************)
(* set_route_options: the pair (options, value) it returns.                *)
(***************************************************************************)
route_names(filtered_df) ==
    sorted(StripAll(dropna(unique(Column(filtered_df, "ROUTE_NAME")))))

\* a set_route_options that leaves the route selection as it is when routes remain
set_route_options_KeepsValue(selected_depots, selected_cities) ==
    LET filtered_df == FilterBy(FilterBy(df, "DEPOT_NAME", selected_depots),
                                "CITY_NAME", selected_cities)
    IN  IF filtered_df = <<>>
        THEN <<<<>>, EmptyList>>
        ELSE <<route_names(filtered_df), route_value>>

set_route_options(selected_depots, selected_cities) ==
    LET filtered_df == FilterBy(FilterBy(df, "DEPOT_NAME", selected_depots),
                                "CITY_NAME", selected_cities)
    IN  IF filtered_df = <<>>
        THEN <<<<>>, EmptyList>>
        ELSE <<route_names(filtered_df), EmptyList>>

(***************************************************************************)
(* Aggregations.                                                           *)
(***************************************************************************)
\* sum of PASSENGER_COUNT over the rows whose `column` is `key`
GroupSum(rows, column, key) ==
    SumSeq(Column(SelectSeq(rows, LAMBDA r : r[column] = key), "PASSENGER_COUNT"))

\* groupby(column)['PASSENGER_COUNT'].sum().reset_index() for the given key order
GroupFrame(rows, column, keys) ==
    [i \in 1..Len(keys) |-> <<keys[i], GroupSum(rows, column, keys[i])>>]

\* Series.idxmax(): the first position of the greatest value
idxmax(frame) ==
    CHOOSE i \in 1..Len(frame) :
        /\ \A j \in 1..Len(frame) : frame[j][2] <= frame[i][2]
        /\ \A j \in 1..(i - 1) : frame[j][2] < frame[i][2]

\* Series.idxmin(): the first position of the least value
idxmin(frame) ==
    CHOOSE i \in 1..Len(frame) :
        /\ \A j \in 1..Len(frame) : frame[j][2] >= frame[i][2]
        /\ \A j \in 1..(i - 1) : frame[j][2] > frame[i][2]

\* the text 'N/A'
NotAvailable == <<78, 47, 65>>

\* groupby('Time_Interval_Label') sorts its keys
temporal_ridership_summary(filtered_df) ==
    GroupFrame(filtered_df, "Time_Interval_Label",
               sorted(unique(Column(filtered_df, "Time_Interval_Label"))))

\* a peak label read from the first group instead of the idxmax one
peak_hour_FirstGroup(filtered_df) ==
    IF filtered_df = <<>> THEN NotAvailable
    ELSE temporal_ridership_summary(filtered_df)[1][1]

peak_hour(filtered_df) ==
    IF filtered_df = <<>> THEN NotAvailable
    ELSE LET summary == temporal_ridership_summary(filtered_df)
         IN  IF summary = <<>> THEN NotAvailable
             ELSE summary[idxmax(summary)][1]

off_peak_hour(filtered_df) ==
    IF filtered_df = <<>> THEN NotAvailable
    ELSE LET summary == temporal_ridership_summary(filtered_df)
         IN  IF summary = <<>> THEN NotAvailable
             ELSE summary[idxmin(summary)][1]

\* value_counts(): how many rows carry each value (an unordered mapping)
value_counts(column) ==
    {<<v, Cardinality({i \in 1..Len(column) : column[i] = v})>> : v \in Range(column)}

\* value_counts(normalize=True): the share count/total of each value
value_shares(column) ==
    {<<v, Cardinality({i \in 1..Len(column) : column[i] = v}), Len(column)>> :
        v \in Range(column)}

\* insertion of a (label, sum) row by its label
RECURSIVE InsertByLabel(_, _)
InsertByLabel(x, s) ==
    IF s = <<>> THEN <<x>>
    ELSE IF StrLess(x[1], Head(s)[1]) THEN <<x>> \o s
    ELSE <<Head(s)>> \o InsertByLabel(x, Tail(s))

\* sort_values('Time_Interval_Label', ascending=True)
RECURSIVE sort_values(_)
sort_values(frame) ==
    IF frame = <<>> THEN frame
    ELSE InsertByLabel(frame[Len(frame)], sort_values(SubSeq(frame, 1, Len(frame) - 1)))

\* groupby('Time_Interval_Label', sort=False) keeps the keys as first met
temporal_ridership_sorted(filtered_df) ==
    sort_values(GroupFrame(filtered_df, "Time_Interval_Label",
                           unique(Column(filtered_df, "Time_Interval_Label"))))

Figure(title, data) == [title |-> title, data |-> data]

\* a graph no callback has written yet, and the {} of line 264
NoFigure == Figure("", <<>>)

pie_chart(filtered_df) ==
    Figure("Transaction Type Distribution",
           value_counts(Column(filtered_df, "PAYMENT_MODE")))

temporal_chart(filtered_df) ==
    Figure("Ridership by 3-Hour Interval", temporal_ridership_sorted(filtered_df))

passenger_type_figure(filtered_df) ==
    IF "Passenger Type" \in columns
    THEN Figure("Passenger Type Distribution",
                value_shares(Column(filtered_df, "Passenger_Type")))
    ELSE NoFigure

\* the four cards: the texts of their html.P elements
cards(total_ridership, total_revenue, peak, off_peak) ==
    [ridership |-> FormatComma(total_ridership),
     revenue |-> <<226, 8218, 185, 32>> \o FormatComma(total_revenue),
     peak_hour |-> peak,
     off_peak_hour |-> off_peak]

(***************************************************************************)
(* update_dashboard: the exception it raises (or ""), its locals when it   *)
(* ended, and the tuple it returns (<<>> when it raises).  Every read of a *)
(* derived column of a frame that has none raises KeyError; such a frame   *)
(* has no rows, so the first such read is the groupby of line 256.         *)
(***************************************************************************)
update_dashboard(selected_depots, selected_cities, selected_routes) ==
    LET filtered_df == ApplyFilters(df, selected_depots, selected_cities,
                                    selected_routes)
        total_ridership == SumSeq(Column(filtered_df, "PASSENGER_COUNT"))
        total_revenue == SumSeq(Column(filtered_df, "FARE_COLLECTED"))
        has_label == "Time_Interval_Label" \in columns
        peak == IF has_label THEN peak_hour(filtered_df) ELSE NotAvailable
        off_peak == IF has_label THEN off_peak_hour(filtered_df) ELSE NotAvailable
    IN  [error |-> IF has_label THEN "" ELSE "KeyError",
         filtered_df |-> filtered_df,
         total_ridership |-> total_ridership,
         total_revenue |-> total_revenue,
         peak_hour |-> peak,
         off_peak_hour |-> off_peak,
         returned |-> IF has_label
                      THEN <<cards(total_ridership, total_revenue, peak, off_peak),
                             temporal_chart(filtered_df),
                             pie_chart(filtered_df),
                             passenger_type_figure(filtered_df)>>
                      ELSE <<>>]

(***************************************************************************)
(* update_area_chart.                                                      *)
(***************************************************************************)
\* an hour window that keeps its end: start_hour <= Hour <= end_hour
InHourRange_EndInclusive(rows, start_hour, end_hour) ==
    SelectSeq(rows, LAMBDA r : r.Hour >= start_hour /\ r.Hour <= end_hour)

\* rows with start_hour <= Hour < end_hour
InHourRange(rows, start_hour, end_hour) ==
    SelectSeq(rows, LAMBDA r : r.Hour >= start_hour /\ r.Hour < end_hour)

\* groupby('Hour')['PASSENGER_COUNT'].sum().reset_index(): keys ascending
ridership_by_hour(rows) ==
    GroupFrame(rows, "Hour", SortInt(unique(Column(rows, "Hour"))))

area_chart(rows, start_hour, end_hour) ==
    [title |-> <<"Ridership Distribution from ", str(start_hour), ":00 to ",
                 str(end_hour), ":00">>,
     data |-> ridership_by_hour(InHourRange(rows, start_hour, end_hour)),
     range |-> <<start_hour, end_hour>>]

update_area_chart(selected_depots, selected_cities, selected_routes, range) ==
    LET filtered_df == ApplyFilters(df, selected_depots, selected_cities,
                                    selected_routes)
        has_hour == "Hour" \in columns
    IN  [error |-> IF has_hour THEN "" ELSE "KeyError",
         filtered_df |-> filtered_df,
         returned |-> IF has_hour
                      THEN area_chart(filtered_df, range[1], range[2])
                      ELSE NoFigure]

(***************************************************************************)
(* What the user can choose.                                               *)
(***************************************************************************)
\* no selection in its three forms, or a list of names
Selections(picks) ==
    {NoneValue, EmptyList, ListOfNone} \cup {Selection(FALSE, s) : s \in picks}

\* 'X' alone; 'X ' and 'Y' together
DepotPicks == {{<<88>>}, {<<88, 32>>, <<89>>}}
\* 'A' alone; ' A' alone
CityPicks == {{<<65>>}, {<<32, 65>>}}
\* 'R1' alone; ' R1' and 'R2' together
RoutePicks == {{<<82, 49>>}, {<<32, 82, 49>>, <<82, 50>>}}

\* positions of the slider's two handles (min 0, max 24, step 1)
TimeRanges == {<<6, 18>>, <<8, 13>>}

(***************************************************************************)
(* Init: the module has been imported; no page has been served yet.        *)
(***************************************************************************)
Init ==
    /\ \E found \in BOOLEAN :
         IF found
         THEN \E csv \in CsvFiles, with_passenger_type \in BOOLEAN :
                /\ df = LoadFrame(csv)
                /\ columns = RequiredColumns \cup DerivedColumns
                                \cup (IF with_passenger_type
                                      THEN {"Passenger Type"} ELSE {})
         ELSE /\ df = <<>>
              /\ columns = FallbackColumns
    /\ depot_options = CleanOptions(Column(df, "DEPOT_NAME"))
    /\ city_options = CleanOptions(Column(df, "CITY_NAME"))
    /\ page_loaded = FALSE
    /\ depot_value = NoneValue
    /\ city_value = NoneValue
    /\ route_options = <<>>
    /\ route_value = NoneValue
    /\ time_range = <<6, 18>>
    /\ cards_container = <<>>
    /\ pie_chart_transaction_type = NoFigure
    /\ temporal_chart_ridership = NoFigure
    /\ passenger_type_chart = NoFigure
    /\ ridership_area_chart = NoFigure
    /\ dash_locals = <<>>
    /\ area_locals = <<>>
    /\ dashboard_error = ""
    /\ area_error = ""

(***************************************************************************)
(* Running a callback and writing its outputs.  The values returned are    *)
(* assigned to the declared Outputs by position; a callback that raises    *)
(* writes nothing.                                                         *)
(***************************************************************************)
RunRouteOptions(depots, cities) ==
    LET returned == set_route_options(depots, cities)
    IN  /\ route_options' = returned[1]
        /\ route_value' = returned[2]

RunDashboard(depots, cities, routes) ==
    LET call == update_dashboard(depots, cities, routes)
    IN  /\ dash_locals' = call
        /\ dashboard_error' = call.error
        /\ IF call.error = ""
           THEN /\ cards_container' = call.returned[1]
                /\ pie_chart_transaction_type' = call.returned[2]
                /\ temporal_chart_ridership' = call.returned[3]
                /\ passenger_type_chart' = call.returned[4]
           ELSE UNCHANGED dashboard_outputs

RunAreaChart(depots, cities, routes, range) ==
    LET call == update_area_chart(depots, cities, routes, range)
    IN  /\ area_locals' = call
        /\ area_error' = call.error
        /\ IF call.error = ""
           THEN ridership_area_chart' = call.returned
           ELSE UNCHANGED ridership_area_chart

(***************************************************************************)
(* Actions.  A change of the depot or city value fires set_route_options   *)
(* first; the two callbacks that also take the route value run once it has *)
(* written it.                                                             *)
(***************************************************************************)
PageLoad ==
    /\ ~page_loaded
    /\ page_loaded' = TRUE
    /\ RunRouteOptions(depot_value, city_value)
    /\ RunDashboard(depot_value, city_value, route_value')
    /\ RunAreaChart(depot_value, city_value, route_value', time_range)
    /\ UNCHANGED <<loaded, depot_value, city_value, time_range>>

SelectDepot ==
    /\ page_loaded
    /\ \E selected \in Selections(DepotPicks) :
         /\ selected # depot_value
         /\ depot_value' = selected
         /\ RunRouteOptions(selected, city_value)
         /\ RunDashboard(selected, city_value, route_value')
         /\ RunAreaChart(selected, city_value, route_value', time_range)
    /\ UNCHANGED <<loaded, page_loaded, city_value, time_range>>

SelectCity ==
    /\ page_loaded
    /\ \E selected \in Selections(CityPicks) :
         /\ selected # city_value
         /\ city_value' = selected
         /\ RunRouteOptions(depot_value, selected)
         /\ RunDashboard(depot_value, selected, route_value')
         /\ RunAreaChart(depot_value, selected, route_value', time_range)
    /\ UNCHANGED <<loaded, page_loaded, depot_value, time_range>>

SelectRoute ==
    /\ page_loaded
    /\ \E selected \in Selections(RoutePicks) :
         /\ selected # route_value
         /\ route_value' = selected
         /\ RunDashboard(depot_value, city_value, selected)
         /\ RunAreaChart(depot_value, city_value, selected, time_range)
    /\ UNCHANGED <<loaded, page_loaded, depot_value, city_value, route_options,
                   time_range>>

MoveSlider ==
    /\ page_loaded
    /\ \E range \in TimeRanges :
         /\ range # time_range
         /\ time_range' = range
         /\ RunAreaChart(depot_value, city_value, route_value, range)
    /\ UNCHANGED <<loaded, page_loaded, depot_value, city_value, route_options,
                   route_value, dashboard_outputs, dash_locals, dashboard_error>>

Next == PageLoad \/ SelectDepot \/ SelectCity \/ SelectRoute \/ MoveSlider

Spec == Init /\ [][Next]_vars

(***************************************************************************)
(* Vocabulary of the properties, stated apart from the callbacks' code.    *)
(***************************************************************************)
file_missing == columns = FallbackColumns

\* a selection that is None, [] or [None]
NoSelection(selected) == selected \in {NoneValue, EmptyList, ListOfNone}

\* a row matches a dimension when nothing is selected or its value is selected
Matches(r, column, selected) ==
    NoSelection(selected) \/ r[column] \in selected.vals

\* the rows of the frame that match all three dimensions, in frame order
MatchingRows(depots, cities, routes) ==
    SelectSeq(df, LAMBDA r : /\ Matches(r, "DEPOT_NAME", depots)
                             /\ Matches(r, "CITY_NAME", cities)
                             /\ Matches(r, "ROUTE_NAME", routes))

\* total passenger count of the rows whose `column` is `key`
RECURSIVE TotalWhere(_, _, _)
TotalWhere(rows, column, key) ==
    IF rows = <<>> THEN 0
    ELSE (IF Head(rows)[column] = key THEN Head(rows).PASSENGER_COUNT ELSE 0)
            + TotalWhere(Tail(rows), column, key)

ValuesOf(rows, column) == {rows[i][column] : i \in 1..Len(rows)}

\* a list of text in strictly ascending order: sorted, nothing repeated
StrictlyAscending(list) ==
    \A i, j \in 1..Len(list) : i < j => StrLess(list[i], list[j])

NoRepeats(list) ==
    \A i, j \in 1..Len(list) : i < j => list[i] # list[j]

(***************************************************************************)
(* C1.  With the input file missing, update_dashboard and                  *)
(* update_area_chart complete without an error for any selections and any  *)
(* hour range, and give total ridership 0, total revenue 0, both labels    *)
(* 'N/A' and empty payment-mode, time-band and hour series.                *)
(***************************************************************************)
C1_MissingFileDegradesGracefully ==
    (file_missing /\ page_loaded) =>
        /\ dashboard_error = ""
        /\ area_error = ""
        /\ dash_locals.returned[1] = cards(0, 0, NotAvailable, NotAvailable)
        /\ dash_locals.returned[3].data = {}
        /\ dash_locals.returned[2].data = <<>>
        /\ area_locals.returned.data = <<>>

(***************************************************************************)
(* C2.  update_dashboard returns, in order, the cards, the payment-mode    *)
(* distribution, the time-band series and the passenger-type distribution, *)
(* so the payment-mode graph receives the payment-mode distribution and    *)
(* the time-band graph receives the time-band series.                      *)
(***************************************************************************)
C2_ReturnOrderMatchesOutputs ==
    (page_loaded /\ dashboard_error = "") =>
        /\ dash_locals.returned[2].title = "Transaction Type Distribution"
        /\ dash_locals.returned[3].title = "Ridership by 3-Hour Interval"
        /\ pie_chart_transaction_type.title = "Transaction Type Distribution"
        /\ pie_chart_transaction_type = pie_chart(dash_locals.filtered_df)
        /\ temporal_chart_ridership.title = "Ridership by 3-Hour Interval"
        /\ temporal_chart_ridership = temporal_chart(dash_locals.filtered_df)

(***************************************************************************)
(* C3.  The subset update_dashboard and update_area_chart aggregate over   *)
(* is exactly the rows that match every dimension with a non-empty         *)
(* selection; None, [] and [None] restrict nothing, so with all three      *)
(* selections empty the subset is the whole dataset.                       *)
(***************************************************************************)
C3_FilterIsConjunctiveMembership ==
    page_loaded =>
        /\ dash_locals.filtered_df
              = MatchingRows(depot_value, city_value, route_value)
        /\ area_locals.filtered_df
              = MatchingRows(depot_value, city_value, route_value)
        /\ (NoSelection(depot_value) /\ NoSelection(city_value)
               /\ NoSelection(route_value))
              => (dash_locals.filtered_df = df /\ area_locals.filtered_df = df)

\* all three dimensions restrict, and some but not all rows survive
C3_Witness ==
    /\ page_loaded
    /\ ~NoSelection(depot_value)
    /\ ~NoSelection(city_value)
    /\ ~NoSelection(route_value)
    /\ dash_locals.filtered_df # <<>>
    /\ Len(dash_locals.filtered_df) < Len(df)

(***************************************************************************)
(* C4.  The route options are the trimmed, non-missing route names of the  *)
(* city/depot-filtered subset, ascending and with no name repeated; none   *)
(* names a route absent from the subset, and with no city or depot         *)
(* selected every route of the dataset is listed.                          *)
(***************************************************************************)
C4_RouteOptionsSortedTrimmedDistinct ==
    page_loaded =>
        LET subset == MatchingRows(depot_value, city_value, NoneValue)
            names == {strip(v) : v \in ValuesOf(subset, "ROUTE_NAME") \ {NaN}}
        IN  /\ Range(route_options) = names
            /\ StrictlyAscending(route_options)

(***************************************************************************)
(* C5.  Every change of the city or depot selection runs                   *)
(* set_route_options, which writes the options of the new selection and    *)
(* the empty list as the route selection, whether or not the filtered      *)
(* subset is empty.                                                        *)
(***************************************************************************)
C5_RouteSelectionResetOnChange ==
    [][(depot_value' # depot_value \/ city_value' # city_value) =>
          /\ route_value' = EmptyList
          /\ route_options'
                = (IF MatchingRows(depot_value', city_value', NoneValue) = <<>>
                   THEN <<>>
                   ELSE route_names(MatchingRows(depot_value', city_value',
                                                 NoneValue)))]_vars

\* a city is selected, routes are offered and none is selected
C5_Witness ==
    /\ page_loaded
    /\ ~NoSelection(city_value)
    /\ route_options # <<>>
    /\ route_value = EmptyList

(***************************************************************************)
(* C6.  On a non-empty filtered subset the peak label names a time band    *)
(* whose passenger total is at least that of every band of the subset and  *)
(* the off-peak label one whose total is at most that of every band (the   *)
(* same band when there is only one); on an empty subset both are 'N/A'.   *)
(* The labels are the ones the cards show when the call returns.           *)
(***************************************************************************)
C6_PeakAndOffPeakAreExtremes ==
    page_loaded =>
        LET subset == dash_locals.filtered_df
            labels == ValuesOf(subset, "Time_Interval_Label")
            Total(label) == TotalWhere(subset, "Time_Interval_Label", label)
            peak == dash_locals.peak_hour
            off_peak == dash_locals.off_peak_hour
        IN  /\ IF subset = <<>>
               THEN peak = NotAvailable /\ off_peak = NotAvailable
               ELSE /\ peak \in labels
                    /\ off_peak \in labels
                    /\ \A l \in labels : Total(peak) >= Total(l)
                    /\ \A l \in labels : Total(off_peak) <= Total(l)
                    /\ Cardinality(labels) = 1 => peak = off_peak
            /\ dashboard_error = "" =>
                  /\ dash_locals.returned[1].peak_hour = peak
                  /\ dash_locals.returned[1].off_peak_hour = off_peak
                  /\ cards_container = dash_locals.returned[1]

\* two bands with different totals: the labels differ
C6_Witness ==
    /\ page_loaded
    /\ dashboard_error = ""
    /\ Len(dash_locals.filtered_df) >= 2
    /\ cards_container.peak_hour # cards_container.off_peak_hour
    /\ cards_container.peak_hour # NotAvailable

(***************************************************************************)
(* C7.  The series of update_area_chart holds exactly the hours h with     *)
(* start <= h < end that occur in the filtered subset, each with the sum   *)
(* of the passenger counts of its rows, in ascending hour order: a row at  *)
(* hour = start is in, a row at hour = end is out, and with no row in      *)
(* range the series is empty.                                              *)
(***************************************************************************)
C7_HourSeriesStartInclusiveEndExclusive ==
    (page_loaded /\ area_error = "") =>
        LET subset == area_locals.filtered_df
            series == ridership_area_chart.data
            hours == {h \in ValuesOf(subset, "Hour") :
                         time_range[1] <= h /\ h < time_range[2]}
        IN  /\ ridership_area_chart = area_locals.returned
            /\ {series[i][1] : i \in 1..Len(series)} = hours
            /\ \A i, j \in 1..Len(series) : i < j => series[i][1] < series[j][1]
            /\ \A i \in 1..Len(series) :
                  series[i][2] = TotalWhere(subset, "Hour", series[i][1])
            /\ hours = {} => series = <<>>

\* a row at the start hour is charted and a row at the end hour is not
C7_Witness ==
    /\ page_loaded
    /\ area_error = ""
    /\ time_range[1] \in ValuesOf(area_locals.filtered_df, "Hour")
    /\ time_range[2] \in ValuesOf(area_locals.filtered_df, "Hour")
    /\ Len(ridership_area_chart.data) = 1
    /\ ridership_area_chart.data[1][1] = time_range[1]

(***************************************************************************)
(* C8.  The city and depot option lists built at load time hold only       *)
(* non-blank, trimmed values, and no value more than once, also when the   *)
(* raw column holds values that differ only in surrounding whitespace.     *)
(***************************************************************************)
C8_LoadOptionsTrimmedNonBlankDistinct ==
    \A options \in {city_options, depot_options} :
        /\ \A i \in 1..Len(options) :
              /\ options[i] # NaN
              /\ options[i] # <<>>
              /\ strip(options[i]) = options[i]
        /\ NoRepeats(options)

(***************************************************************************)
(* C9.  For every hour 0..23 the interval is the hour floored to a         *)
(* multiple of 3 and the label is the zero-padded 'II-JJ hrs' with         *)
(* JJ = II + 3, 8 labels in all; the time-band series of update_dashboard  *)
(* has one entry per label of the filtered subset with that label's        *)
(* passenger total, and its ascending lexical order of labels is the       *)
(* ascending order of intervals.                                           *)
(***************************************************************************)
\* the two decimal digits of n < 100 as text
TwoDigits(n) == <<48 + (n \div 10), 48 + (n % 10)>>

C9_LabelsAndSeriesOrder ==
    /\ \A h \in 0..23 :
          LET interval == Time_Interval(h)
          IN  /\ interval % 3 = 0
              /\ interval <= h
              /\ h < interval + 3
              /\ Time_Interval_Label(interval)
                    = TwoDigits(interval) \o <<45>> \o TwoDigits(interval + 3)
                         \o <<32, 104, 114, 115>>
    /\ Cardinality({Time_Interval_Label(Time_Interval(h)) : h \in 0..23}) = 8
    /\ \A g, h \in 0..23 :
          Time_Interval(g) < Time_Interval(h)
             <=> StrLess(Time_Interval_Label(Time_Interval(g)),
                         Time_Interval_Label(Time_Interval(h)))
    /\ (page_loaded /\ dashboard_error = "") =>
          LET subset == dash_locals.filtered_df
              series == dash_locals.returned[2].data
              IntervalOf(label) ==
                  CHOOSE t \in ValuesOf(subset, "Time_Interval") :
                      \E i \in 1..Len(subset) :
                          /\ subset[i].Time_Interval = t
                          /\ subset[i].Time_Interval_Label = label
          IN  /\ dash_locals.returned[2].title = "Ridership by 3-Hour Interval"
              /\ {series[i][1] : i \in 1..Len(series)}
                    = ValuesOf(subset, "Time_Interval_Label")
              /\ Len(series) = Cardinality(ValuesOf(subset, "Time_Interval_Label"))
              /\ \A i \in 1..Len(series) :
                    series[i][2]
                       = TotalWhere(subset, "Time_Interval_Label", series[i][1])
              /\ \A i, j \in 1..Len(series) :
                    i < j => /\ StrLess(series[i][1], series[j][1])
                             /\ IntervalOf(series[i][1]) < IntervalOf(series[j][1])

\* a series with a band below 10 and a band from 10 on
C9_Witness ==
    /\ page_loaded
    /\ dashboard_error = ""
    /\ Len(dash_locals.returned[2].data) >= 2
    /\ \E r \in Range(dash_locals.filtered_df) : r.Time_Interval < 10
    /\ \E r \in Range(dash_locals.filtered_df) : r.Time_Interval >= 10

(***************************************************************************)
(* C10.  Every value offered in the city, depot or route options, when     *)
(* selected on its own (the route with the city/depot selection that       *)
(* produced its options), makes the filter of update_dashboard keep at     *)
(* least one row.                                                          *)
(***************************************************************************)
OnlyPick(selected, options) ==
    /\ ~selected.none
    /\ \E i \in 1..Len(options) : selected.vals = {options[i]}

C10_EveryOptionKeepsARow ==
    page_loaded =>
        /\ (OnlyPick(city_value, city_options) /\ NoSelection(depot_value)
               /\ NoSelection(route_value))
              => dash_locals.filtered_df # <<>>
        /\ (OnlyPick(depot_value, depot_options) /\ NoSelection(city_value)
               /\ NoSelection(route_value))
              => dash_locals.filtered_df # <<>>
        /\ OnlyPick(route_value, route_options)
              => dash_locals.filtered_df # <<>>

=============================================================================
